---- MODULE Spec2Model ----
(***************************************************************************)
(* Model of src/src/main.rs: the fanotify monitor.  main() creates the     *)
(* notification session, creates the test file, registers the watch marks  *)
(* (with the fallback to a reduced mask), then reads the session in a loop *)
(* and frames / decodes the records found in the bytes read.               *)
(*                                                                         *)
(* The read buffer is modelled byte by byte: the kernel lays out records   *)
(* of 24 bytes in little-endian order, and the decoder overlays the header *)
(* struct at the running byte offset, as the code does with its pointer    *)
(* cast, so a header read at an offset that is not a record boundary gets  *)
(* the fields the bytes there encode.                                      *)
(***************************************************************************)
EXTENDS Integers, Sequences, FiniteSets, TLC

(* ---------------------------------------------------------------- bounds *)
\* Records the kernel puts into one read.
MaxRecs == 2
\* Cap of event_count (the code's counter is unbounded).
MaxEvents == 4

(* ------------------------------------------------------------- constants *)
FAN_OPEN == 1
FAN_MODIFY == 2
FAN_ATTRIB == 4
FAN_CLOSE_WRITE == 8
FAN_MARK_ADD == 1
FAN_MARK_ONLYDIR == 8
\* mem::size_of::<FanotifyEventMetadata>(): 4 + 1 + 1 + 2 + 8 + 4 + 4
HeaderSize == 24
BUF_SIZE == 4096
EINTR == 4
EAGAIN == 11
\* the value of a subject descriptor field that carries no descriptor
NoFd == -1
\* the return value of a failed system call
SysFail == -1

\* errno values of a failed read: the two the code retries, and two others
\* (EIO = 5, EBADF = 9)
ReadErrnos == {EINTR, EAGAIN, 5, 9}

TestFile == "/tmp/fanotify_test_file.txt"
TmpDir == "/tmp"

(* --------------------------------------------------------------- helpers *)
Pow2(n) == 2 ^ n

\* a & b on naturals
RECURSIVE BitAnd(_, _)
BitAnd(a, b) ==
    IF a = 0 \/ b = 0 THEN 0
    ELSE (IF a % 2 = 1 /\ b % 2 = 1 THEN 1 ELSE 0) + 2 * BitAnd(a \div 2, b \div 2)

\* a | b on naturals
RECURSIVE BitOr(_, _)
BitOr(a, b) ==
    IF a = 0 THEN b
    ELSE IF b = 0 THEN a
    ELSE (IF a % 2 = 1 \/ b % 2 = 1 THEN 1 ELSE 0) + 2 * BitOr(a \div 2, b \div 2)

\* the n little-endian bytes of the unsigned value v
RECURSIVE LE(_, _)
LE(v, n) == IF n = 0 THEN <<>> ELSE <<v % 256>> \o LE(v \div 256, n - 1)

\* Byte i (from 1) of the buffer whose first bytes are buf: the buffer is
\* [0u8; BUF_SIZE], and buf holds the bytes the read returned.
ByteAt(buf, i) == IF i <= Len(buf) THEN buf[i] ELSE 0

\* the unsigned value of the n little-endian bytes of buf from byte offset off
RECURSIVE FromLE(_, _, _)
FromLE(buf, off, n) ==
    IF n = 0 THEN 0 ELSE ByteAt(buf, off + 1) + 256 * FromLE(buf, off + 1, n - 1)

\* Numbers here are 32-bit signed, so the 32-bit and 64-bit fields of the
\* record are kept as their bytes and read as follows.

\* The four little-endian bytes of the i32 value i (two's complement).
LEI32(i) ==
    IF i >= 0 THEN LE(i, 4)
    ELSE LET b == LE((i + 2147483647) + 1, 4) IN [b EXCEPT ![4] = @ + 128]

\* The i32 value of the four bytes of buf at off.
I32At(buf, off) ==
    FromLE(buf, off, 3) + Pow2(24) * (ByteAt(buf, off + 4) % 128)
        + (IF ByteAt(buf, off + 4) >= 128 THEN (0 - 2147483647) - 1 ELSE 0)

\* The u32 value of the four bytes of buf at off; a value of 2^30 or more is
\* represented by 2^30: the only use of event_len is to advance offset, which
\* is then compared with bytes_read <= BUF_SIZE.
U32At(buf, off) ==
    IF ByteAt(buf, off + 4) >= 64 THEN Pow2(30) ELSE FromLE(buf, off, 4)

\* mask & bit != 0 for a u64 mask kept as its 8 little-endian bytes and a
\* constant bit < 2^24.
MaskHas(mask, bit) ==
    \E i \in 1..3 : BitAnd(mask[i], (bit \div Pow2(8 * (i - 1))) % 256) # 0

\* The wire layout of struct FanotifyEventMetadata (repr(C)).
EncodeRecord(r) ==
    LE(r.event_len, 4) \o <<r.vers, r.reserved>> \o LE(r.metadata_len, 2)
        \o LE(r.mask, 8) \o LEI32(r.fd) \o LEI32(r.pid)

\* The struct the pointer cast at buffer + off yields.
EventAt(buf, off) ==
    [event_len    |-> U32At(buf, off),
     vers         |-> ByteAt(buf, off + 5),
     reserved     |-> ByteAt(buf, off + 6),
     metadata_len |-> FromLE(buf, off + 6, 2),
     mask         |-> [i \in 1..8 |-> ByteAt(buf, off + 8 + i)],
     fd           |-> I32At(buf, off + 16),
     pid          |-> I32At(buf, off + 20)]

\* The lowest descriptor number not in use: what the kernel hands out.
LowestFree(open) ==
    CHOOSE n \in 0..Cardinality(open) :
        n \notin open /\ \A m \in 0..(n - 1) : m \in open

\* faulty variant of mask_fallback: the retry drops MODIFY as well
mask_fallback_without_modify == BitOr(FAN_OPEN, FAN_CLOSE_WRITE)

mask_metadata_focused == BitOr(BitOr(FAN_ATTRIB, FAN_OPEN), FAN_CLOSE_WRITE)
mask_fallback == BitOr(BitOr(FAN_OPEN, FAN_MODIFY), FAN_CLOSE_WRITE)

(* ----------------------------------------------------------------- state *)
VARIABLES
    pc,              \* position in main
    result,          \* what main returned: "none" (running), "Ok", "Err"
    open_fds,        \* the process's descriptor table: the open numbers
    fanotify_fd,     \* the session descriptor (SysFail before / without one)
    sessions,        \* fanotify_init calls that succeeded
    session_closes,  \* libc::close(fanotify_fd) calls
    marks,           \* the fanotify_mark calls made, in order
    actual_mask,
    event_count,
    bytes_read,      \* return value of the last read
    errno,           \* errno of the last read (0 when it succeeded)
    buffer,          \* the bytes the last read put into the buffer
    offset,
    path_info,       \* subject of the record being handled
    out,             \* events emitted for the bytes of the last read
    close_log,       \* descriptors closed by the decoder since the last read
    read_called,     \* whether read was ever called on the session
    delivered        \* the records the kernel wrote in the read being handled

vars == <<pc, result, open_fds, fanotify_fd, sessions, session_closes, marks,
          actual_mask, event_count, bytes_read, errno, buffer, offset,
          path_info, out, close_log, read_called, delivered>>

setup_vars == <<actual_mask, event_count, bytes_read, errno, buffer, offset,
                path_info, out, close_log, read_called, delivered>>

NoPath == [tag |-> "none", fd |-> NoFd]

Init ==
    /\ pc = "init"
    /\ result = "none"
    /\ open_fds = {0, 1, 2}
    /\ fanotify_fd = SysFail
    /\ sessions = 0
    /\ session_closes = 0
    /\ marks = <<>>
    /\ actual_mask = 0
    /\ event_count = 0
    /\ bytes_read = 0
    /\ errno = 0
    /\ buffer = <<>>
    /\ offset = 0
    /\ path_info = NoPath
    /\ out = <<>>
    /\ close_log = <<>>
    /\ read_called = FALSE
    /\ delivered = <<>>

(* ------------------------------------------------- session and the marks *)
\* faulty variant of FanotifyInit: a failed fanotify_init is reported but main goes on
FanotifyInitNoReturn ==
    /\ pc = "init"
    /\ \E ok \in BOOLEAN :
        IF ok
        THEN /\ fanotify_fd' = LowestFree(open_fds)
             /\ open_fds' = open_fds \cup {LowestFree(open_fds)}
             /\ sessions' = sessions + 1
        ELSE /\ fanotify_fd' = SysFail
             /\ UNCHANGED <<open_fds, sessions>>
    /\ pc' = "create_file"
    /\ UNCHANGED <<result, session_closes, marks>>
    /\ UNCHANGED setup_vars

\* fanotify_init: on failure main returns Err at once.
FanotifyInit ==
    /\ pc = "init"
    /\ \E ok \in BOOLEAN :
        IF ok
        THEN /\ fanotify_fd' = LowestFree(open_fds)
             /\ open_fds' = open_fds \cup {LowestFree(open_fds)}
             /\ sessions' = sessions + 1
             /\ pc' = "create_file"
             /\ result' = result
        ELSE /\ fanotify_fd' = SysFail
             /\ pc' = "done"
             /\ result' = "Err"
             /\ UNCHANGED <<open_fds, sessions>>
    /\ UNCHANGED <<session_closes, marks>>
    /\ UNCHANGED setup_vars

\* std::fs::write of the test file: on failure main returns Err.
CreateTestFile ==
    /\ pc = "create_file"
    /\ \E ok \in BOOLEAN :
        IF ok
        THEN pc' = "mark" /\ result' = result
        ELSE pc' = "done" /\ result' = "Err"
    /\ UNCHANGED <<open_fds, fanotify_fd, sessions, session_closes, marks>>
    /\ UNCHANGED setup_vars

Mark(flags, mask, path, ok) ==
    [fd |-> fanotify_fd, flags |-> flags, mask |-> mask, path |-> path, ok |-> ok]

\* First fanotify_mark, with mask_metadata_focused.
MarkMetadata ==
    /\ pc = "mark"
    /\ \E ok \in BOOLEAN :
        /\ marks' = Append(marks, Mark(FAN_MARK_ADD, mask_metadata_focused, TestFile, ok))
        /\ IF ok
           THEN /\ actual_mask' = mask_metadata_focused
                /\ pc' = "read"
           ELSE /\ actual_mask' = actual_mask
                /\ pc' = "mark_fallback"
    /\ UNCHANGED <<result, open_fds, fanotify_fd, sessions, session_closes>>
    /\ UNCHANGED <<event_count, bytes_read, errno, buffer, offset, path_info, out,
                   close_log, read_called, delivered>>

\* Second fanotify_mark, with mask_fallback; on failure the session is closed
\* and main returns Err.
MarkFallback ==
    /\ pc = "mark_fallback"
    /\ \E ok \in BOOLEAN :
        /\ marks' = Append(marks, Mark(FAN_MARK_ADD, mask_fallback, TestFile, ok))
        /\ IF ok
           THEN /\ pc' = "mark_dir"
                /\ UNCHANGED <<result, open_fds, session_closes>>
           ELSE /\ open_fds' = open_fds \ {fanotify_fd}
                /\ session_closes' = session_closes + 1
                /\ result' = "Err"
                /\ pc' = "done"
    /\ UNCHANGED <<fanotify_fd, sessions>>
    /\ UNCHANGED setup_vars

\* faulty variant of MarkDir: the directory mark is taken to have succeeded
MarkDirAssumedOk ==
    /\ pc = "mark_dir"
    /\ \E ok \in BOOLEAN :
        /\ marks' = Append(marks,
                Mark(BitOr(FAN_MARK_ADD, FAN_MARK_ONLYDIR), FAN_ATTRIB, TmpDir, ok))
        /\ actual_mask' = BitOr(mask_fallback, FAN_ATTRIB)
    /\ pc' = "read"
    /\ UNCHANGED <<result, open_fds, fanotify_fd, sessions, session_closes>>
    /\ UNCHANGED <<event_count, bytes_read, errno, buffer, offset, path_info, out,
                   close_log, read_called, delivered>>

\* Third fanotify_mark: FAN_ATTRIB on the directory.
MarkDir ==
    /\ pc = "mark_dir"
    /\ \E ok \in BOOLEAN :
        /\ marks' = Append(marks,
                Mark(BitOr(FAN_MARK_ADD, FAN_MARK_ONLYDIR), FAN_ATTRIB, TmpDir, ok))
        /\ actual_mask' = IF ok THEN BitOr(mask_fallback, FAN_ATTRIB) ELSE mask_fallback
    /\ pc' = "read"
    /\ UNCHANGED <<result, open_fds, fanotify_fd, sessions, session_closes>>
    /\ UNCHANGED <<event_count, bytes_read, errno, buffer, offset, path_info, out,
                   close_log, read_called, delivered>>

(* ------------------------------------------------------- the read buffer *)
\* What one record of a read may hold.  The kernel writes each record as a
\* 24-byte header followed by extra bytes of further information (none in the
\* records of a notification group without file identifiers); the length
\* field is also given values a well-formed stream never has (0, less than
\* the header, more than the record), the mask values with several known
\* bits, with a bit that was not registered, and with no known bit, and the
\* version field a value other than 3.
Templates ==
    { [event_len |-> 24, vers |-> 3, mask |-> 9,  has_fd |-> TRUE,  extra |-> 0],
      [event_len |-> 24, vers |-> 3, mask |-> 16, has_fd |-> FALSE, extra |-> 0],
      [event_len |-> 24, vers |-> 2, mask |-> 2,  has_fd |-> TRUE,  extra |-> 0],
      [event_len |-> 0,  vers |-> 3, mask |-> 1,  has_fd |-> TRUE,  extra |-> 0],
      [event_len |-> 8,  vers |-> 3, mask |-> 1,  has_fd |-> TRUE,  extra |-> 0],
      [event_len |-> 48, vers |-> 3, mask |-> 1,  has_fd |-> TRUE,  extra |-> 0] }

\* pid of the process that caused the events
EventPid == 4242

ReadContents == UNION { [1..n -> Templates] : n \in 1..MaxRecs }

\* The descriptors the kernel installs for the records of one read, in order.
RECURSIVE AssignFds(_, _)
AssignFds(tmpls, open) ==
    IF tmpls = <<>> THEN <<>>
    ELSE LET fd == IF Head(tmpls).has_fd THEN LowestFree(open) ELSE NoFd
         IN  <<fd>> \o AssignFds(Tail(tmpls), IF fd >= 0 THEN open \cup {fd} ELSE open)

RECURSIVE KernelBytes(_, _)
KernelBytes(tmpls, fds) ==
    IF tmpls = <<>> THEN <<>>
    ELSE EncodeRecord([event_len |-> Head(tmpls).event_len, vers |-> Head(tmpls).vers,
                       reserved |-> 0, metadata_len |-> HeaderSize,
                       mask |-> Head(tmpls).mask, fd |-> Head(fds), pid |-> EventPid])
         \o [i \in 1..Head(tmpls).extra |-> 0]
         \o KernelBytes(Tail(tmpls), Tail(fds))

\* Where the kernel put each record of one read, and what it holds.
RECURSIVE KernelRecords(_, _, _)
KernelRecords(tmpls, fds, off) ==
    IF tmpls = <<>> THEN <<>>
    ELSE <<[off |-> off, size |-> HeaderSize + Head(tmpls).extra,
            mask |-> Head(tmpls).mask, fd |-> Head(fds)]>>
         \o KernelRecords(Tail(tmpls), Tail(fds), off + HeaderSize + Head(tmpls).extra)

SeqRange(s) == { s[i] : i \in 1..Len(s) }

(* ---------------------------------------------------------- the read loop *)
\* libc::read(fanotify_fd, buffer, BUF_SIZE): fails with an errno, returns 0,
\* or returns whole records (one of contents), each with its descriptor
\* installed.  errno is kept as the errno of the last read, 0 once a read
\* succeeds: the code looks at it only after a read that failed.
ReadFrom(contents) ==
    /\ pc = "read"
    /\ \/ /\ bytes_read' = SysFail
          /\ errno' \in (IF fanotify_fd \in open_fds THEN ReadErrnos ELSE {9})
          /\ UNCHANGED <<buffer, open_fds, delivered>>
       \/ /\ fanotify_fd \in open_fds
          /\ bytes_read' = 0
          /\ errno' = 0
          /\ UNCHANGED <<buffer, open_fds, delivered>>
       \/ /\ fanotify_fd \in open_fds
          /\ \E tmpls \in contents :
               LET fds == AssignFds(tmpls, open_fds)
                   bytes == KernelBytes(tmpls, fds)
               IN  /\ event_count + Len(tmpls) <= MaxEvents
                   /\ Len(bytes) <= BUF_SIZE
                   /\ buffer' = bytes
                   /\ bytes_read' = Len(bytes)
                   /\ delivered' = KernelRecords(tmpls, fds, 0)
                   /\ open_fds' = open_fds \cup { fd \in SeqRange(fds) : fd >= 0 }
          /\ errno' = 0
    /\ read_called' = TRUE
    /\ pc' = "check_read"
    /\ UNCHANGED <<result, fanotify_fd, sessions, session_closes, marks, actual_mask,
                   event_count, offset, path_info, out, close_log>>

SysRead == ReadFrom(ReadContents)

\* `continue` / end of the loop body: bytes_read and offset go out of scope,
\* and no byte of the buffer is read again before the next read rewrites the
\* bytes it returns.  The logs of the framing pass start afresh.
NextIteration ==
    /\ pc' = "read"
    /\ bytes_read' = 0
    /\ buffer' = <<>>
    /\ offset' = 0
    /\ path_info' = NoPath
    /\ out' = <<>>
    /\ close_log' = <<>>
    /\ delivered' = <<>>

\* faulty variant of IsTransient: EAGAIN is not retried
IsTransientOnlyEintr(e) == e = EINTR

\* The errno values the loop retries.
IsTransient(e) == e = EINTR \/ e = EAGAIN

\* bytes_read == -1 with EINTR / EAGAIN: continue.
ReadRetry ==
    /\ pc = "check_read"
    /\ bytes_read = SysFail
    /\ IsTransient(errno)
    /\ NextIteration
    /\ UNCHANGED <<result, open_fds, fanotify_fd, sessions, session_closes, marks,
                   actual_mask, event_count, errno, read_called>>

\* bytes_read == -1 with any other errno: break.
ReadFatal ==
    /\ pc = "check_read"
    /\ bytes_read = SysFail
    /\ ~IsTransient(errno)
    /\ pc' = "cleanup"
    /\ UNCHANGED <<result, open_fds, fanotify_fd, sessions, session_closes, marks,
                   actual_mask, event_count, bytes_read, errno, buffer, offset,
                   path_info, out, close_log, read_called, delivered>>

\* faulty variant of ReadZero: a read of 0 bytes ends the loop
ReadZeroBreaks ==
    /\ pc = "check_read"
    /\ bytes_read = 0
    /\ pc' = "cleanup"
    /\ UNCHANGED <<result, open_fds, fanotify_fd, sessions, session_closes, marks,
                   actual_mask, event_count, bytes_read, errno, buffer, offset,
                   path_info, out, close_log, read_called, delivered>>

\* bytes_read == 0: continue.
ReadZero ==
    /\ pc = "check_read"
    /\ bytes_read = 0
    /\ NextIteration
    /\ UNCHANGED <<result, open_fds, fanotify_fd, sessions, session_closes, marks,
                   actual_mask, event_count, errno, read_called>>

\* bytes_read > 0: let mut offset = 0 and enter the framing loop.
ParseStart ==
    /\ pc = "check_read"
    /\ bytes_read > 0
    /\ offset' = 0
    /\ out' = <<>>
    /\ close_log' = <<>>
    /\ pc' = "frame"
    /\ UNCHANGED <<result, open_fds, fanotify_fd, sessions, session_closes, marks,
                   actual_mask, event_count, bytes_read, errno, buffer, path_info,
                   read_called, delivered>>

\* faulty variant of EventTypes: an else-if chain, only the first matching bit counts
EventTypesFirstMatch(mask) ==
    IF MaskHas(mask, FAN_ATTRIB) THEN <<"ATTRIB-METADATA">>
    ELSE IF MaskHas(mask, FAN_OPEN) THEN <<"OPEN">>
    ELSE IF MaskHas(mask, FAN_MODIFY) THEN <<"MODIFY">>
    ELSE IF MaskHas(mask, FAN_CLOSE_WRITE) THEN <<"CLOSE_WRITE">>
    ELSE <<>>

\* faulty variant of EventTypes: a bit counts only if it is in actual_mask
EventTypesRegisteredOnly(mask) ==
    (IF MaskHas(mask, FAN_ATTRIB) /\ BitAnd(actual_mask, FAN_ATTRIB) # 0
        THEN <<"ATTRIB-METADATA">> ELSE <<>>)
    \o (IF MaskHas(mask, FAN_OPEN) /\ BitAnd(actual_mask, FAN_OPEN) # 0
        THEN <<"OPEN">> ELSE <<>>)
    \o (IF MaskHas(mask, FAN_MODIFY) /\ BitAnd(actual_mask, FAN_MODIFY) # 0
        THEN <<"MODIFY">> ELSE <<>>)
    \o (IF MaskHas(mask, FAN_CLOSE_WRITE) /\ BitAnd(actual_mask, FAN_CLOSE_WRITE) # 0
        THEN <<"CLOSE_WRITE">> ELSE <<>>)

\* The event_types vector: each known bit tested on its own, in this order.
EventTypes(mask) ==
    (IF MaskHas(mask, FAN_ATTRIB) THEN <<"ATTRIB-METADATA">> ELSE <<>>)
    \o (IF MaskHas(mask, FAN_OPEN) THEN <<"OPEN">> ELSE <<>>)
    \o (IF MaskHas(mask, FAN_MODIFY) THEN <<"MODIFY">> ELSE <<>>)
    \o (IF MaskHas(mask, FAN_CLOSE_WRITE) THEN <<"CLOSE_WRITE">> ELSE <<>>)

\* faulty variant of PathInfo: a failed read_link gives "path=unknown" too
PathInfoUnknownOnFailure(fd, resolved) ==
    IF fd >= 0 /\ resolved THEN [tag |-> "path", fd |-> fd]
    ELSE [tag |-> "unknown", fd |-> fd]

\* path_info: "path=<resolved>", "fd=<n>" when read_link fails, "path=unknown"
\* for a negative descriptor.
PathInfo(fd, resolved) ==
    IF fd >= 0
    THEN IF resolved THEN [tag |-> "path", fd |-> fd] ELSE [tag |-> "fd", fd |-> fd]
    ELSE [tag |-> "unknown", fd |-> fd]

\* faulty variant of HeaderFits: only the offset is compared with bytes_read
HeaderFitsOffsetOnly(off, n) == ~(off > n)

\* The while condition and the check before the overlay.
HeaderFits(off, n) == ~(off + HeaderSize > n)

\* faulty variant of Advance: every record is taken to be one header long
AdvanceByHeaderSize(off, event_len) == off + HeaderSize

\* faulty variant of Advance: the header size is added to the record's length
AdvancePastHeaderToo(off, event_len) == off + event_len + HeaderSize

\* offset += event.event_len as usize: usize is 64-bit and off < bytes_read,
\* so the sum never wraps.
Advance(off, event_len) == off + event_len

\* One record: overlay the header at offset, count it, resolve the subject,
\* build event_types and print the summary.
DecodeRecord ==
    /\ pc = "frame"
    /\ offset < bytes_read
    /\ HeaderFits(offset, bytes_read)
    /\ event_count < MaxEvents
    /\ LET event == EventAt(buffer, offset)
       IN  /\ event_count' = event_count + 1
           /\ \E resolved \in (IF event.fd \in open_fds THEN BOOLEAN ELSE {FALSE}) :
                /\ path_info' = PathInfo(event.fd, resolved)
                /\ out' = Append(out, [kind |-> "Event",
                                       kinds |-> EventTypes(event.mask),
                                       pid |-> event.pid,
                                       subject |-> PathInfo(event.fd, resolved),
                                       off |-> offset,
                                       resolved |-> resolved,
                                       raw |-> event])
    /\ pc' = "close_fd"
    /\ UNCHANGED <<result, open_fds, fanotify_fd, sessions, session_closes, marks,
                   actual_mask, bytes_read, errno, buffer, offset, close_log,
                   read_called, delivered>>

\* The descriptors the decoder closes for the record at offset.
FdsToClose(event) == IF event.fd >= 0 THEN {event.fd} ELSE {}

\* Close the record's descriptor and move to the next record.
CloseEventFd ==
    /\ pc = "close_fd"
    /\ LET event == EventAt(buffer, offset)
       IN  /\ open_fds' = open_fds \ FdsToClose(event)
           /\ close_log' = IF FdsToClose(event) = {} THEN close_log
                           ELSE Append(close_log, [fd |-> event.fd, off |-> offset,
                                                   was_open |-> event.fd \in open_fds])
           /\ offset' = Advance(offset, event.event_len)
    /\ path_info' = NoPath
    /\ pc' = "frame"
    /\ UNCHANGED <<result, fanotify_fd, sessions, session_closes, marks, actual_mask,
                   event_count, bytes_read, errno, buffer, out, read_called,
                   delivered>>

\* offset + size_of header > bytes_read: "Incomplete event data", break.
FrameIncomplete ==
    /\ pc = "frame"
    /\ offset < bytes_read
    /\ ~HeaderFits(offset, bytes_read)
    /\ NextIteration
    /\ UNCHANGED <<result, open_fds, fanotify_fd, sessions, session_closes, marks,
                   actual_mask, event_count, errno, read_called>>

\* offset >= bytes_read: the while loop ends, back to read.
FrameDone ==
    /\ pc = "frame"
    /\ ~(offset < bytes_read)
    /\ NextIteration
    /\ UNCHANGED <<result, open_fds, fanotify_fd, sessions, session_closes, marks,
                   actual_mask, event_count, errno, read_called>>

\* What main returns after the loop.
LoopResult == "Ok"

\* After the loop: close the session descriptor and return Ok(()).
Cleanup ==
    /\ pc = "cleanup"
    /\ open_fds' = open_fds \ {fanotify_fd}
    /\ session_closes' = session_closes + 1
    /\ result' = LoopResult
    /\ pc' = "done"
    /\ UNCHANGED <<fanotify_fd, sessions, marks>>
    /\ UNCHANGED setup_vars

Next ==
    \/ FanotifyInit
    \/ CreateTestFile
    \/ MarkMetadata
    \/ MarkFallback
    \/ MarkDir
    \/ SysRead
    \/ ReadRetry
    \/ ReadFatal
    \/ ReadZero
    \/ ParseStart
    \/ DecodeRecord
    \/ CloseEventFd
    \/ FrameIncomplete
    \/ FrameDone
    \/ Cleanup

Spec == Init /\ [][Next]_vars

(* -------------------------------------------- decoding under every mask *)
\* Well-formed reads of one record, over every combination of the four known
\* bits and the bit 0x10, and masks with bits in the second byte.
MaskValues == (0..31) \cup {256, 265}

MaskContents ==
    { <<[event_len |-> HeaderSize, vers |-> 3, mask |-> m, has_fd |-> f, extra |-> 0]>> :
        m \in MaskValues, f \in BOOLEAN }

SysReadMasks == ReadFrom(MaskContents)

NextMasks ==
    \/ FanotifyInit
    \/ CreateTestFile
    \/ MarkMetadata
    \/ MarkFallback
    \/ MarkDir
    \/ SysReadMasks
    \/ ReadRetry
    \/ ReadFatal
    \/ ReadZero
    \/ ParseStart
    \/ DecodeRecord
    \/ CloseEventFd
    \/ FrameDone
    \/ Cleanup

SpecMasks == Init /\ [][NextMasks]_vars

(* ------------------------------------------------- well-formed streams *)
\* Reads as the kernel makes them: every event_len is the size of its record,
\* with and without further information after the header.
WellFormedTemplates ==
    { [event_len |-> 24, vers |-> 3, mask |-> 9, has_fd |-> TRUE,  extra |-> 0],
      [event_len |-> 32, vers |-> 3, mask |-> 4, has_fd |-> TRUE,  extra |-> 8],
      [event_len |-> 24, vers |-> 3, mask |-> 2, has_fd |-> FALSE, extra |-> 0] }

WellFormedContents == UNION { [1..n -> WellFormedTemplates] : n \in 1..MaxRecs }

SysReadWellFormed == ReadFrom(WellFormedContents)

NextWellFormed ==
    \/ FanotifyInit
    \/ CreateTestFile
    \/ MarkMetadata
    \/ MarkFallback
    \/ MarkDir
    \/ SysReadWellFormed
    \/ ReadRetry
    \/ ReadFatal
    \/ ReadZero
    \/ ParseStart
    \/ DecodeRecord
    \/ CloseEventFd
    \/ FrameDone
    \/ Cleanup

SpecWellFormed == Init /\ [][NextWellFormed]_vars

\* main is one thread that runs on: a step of the loop that can be taken is
\* taken.  (The read itself blocks until the kernel has something.)
SpecWellFormedFair ==
    /\ SpecWellFormed
    /\ WF_vars(ParseStart)
    /\ WF_vars(DecodeRecord)
    /\ WF_vars(CloseEventFd)
    /\ WF_vars(FrameDone)

(* ================================================================ claims *)
KnownKinds == {"ATTRIB-METADATA", "OPEN", "MODIFY", "CLOSE_WRITE"}

KindBit(k) ==
    CASE k = "ATTRIB-METADATA" -> FAN_ATTRIB
      [] k = "OPEN" -> FAN_OPEN
      [] k = "MODIFY" -> FAN_MODIFY
      [] k = "CLOSE_WRITE" -> FAN_CLOSE_WRITE

\* bit (a power of two below 256) is set in the low byte of the mask bytes
LowBitSet(mask, bit) == (mask[1] \div bit) % 2 = 1

\* how often the decoder closed descriptor fd in this framing pass
ClosesOf(fd) == Cardinality({ j \in 1..Len(close_log) : close_log[j].fd = fd })

\* C1: every record the decoder took from the buffer with a descriptor fd >= 0
\* has had that descriptor closed exactly once when the decoder is back at the
\* head of the framing loop (about to take the next record or to read again):
\* not twice, and not left open.
C1_SubjectFdClosedExactlyOnce ==
    pc = "frame" =>
        \A i \in 1..Len(out) :
            out[i].raw.fd >= 0 =>
                /\ ClosesOf(out[i].raw.fd) = 1
                /\ out[i].raw.fd \notin open_fds

\* C2: a record whose event_len is smaller than the header size (0 included)
\* is reported as a decode fault, never emitted as a normal event.
C2_ShortLengthIsDecodeFault ==
    \A i \in 1..Len(out) :
        out[i].raw.event_len < HeaderSize => out[i].kind = "DecodeFault"

\* C3: a read that failed changes neither the event counter nor the descriptor
\* table; when its errno is EINTR or EAGAIN the loop goes back to read with
\* nothing decoded, nothing closed and nothing returned to the caller, and with
\* any other errno it leaves the loop.
C3_TransientReadErrorRetried ==
    [][ /\ (pc = "read" /\ bytes_read' = SysFail) =>
              /\ event_count' = event_count
              /\ open_fds' = open_fds
              /\ close_log' = close_log
              /\ out' = out
        /\ (pc = "check_read" /\ bytes_read = SysFail) =>
              IF errno \in {EINTR, EAGAIN}
              THEN /\ pc' = "read"
                   /\ result' = "none"
                   /\ event_count' = event_count
                   /\ open_fds' = open_fds
                   /\ session_closes' = session_closes
                   /\ close_log' = close_log
                   /\ out' = out
              ELSE pc' = "cleanup" ]_vars

\* C3 witness: the loop is back at read after a read that failed with EAGAIN,
\* after events were already decoded.
C3_Witness ==
    pc = "read" /\ errno = EAGAIN /\ event_count > 0 /\ result = "none"

\* C4: when the read loop stopped because of a non-transient read error, main
\* returns an error.
C4_FatalReadErrorIsReturned ==
    (pc = "done" /\ bytes_read = SysFail) => result = "Err"

\* C5: a record whose event_len makes it extend past the bytes read is not
\* emitted as a normal event.
C5_RecordPastBytesReadIsError ==
    \A i \in 1..Len(out) :
        out[i].off + out[i].raw.event_len > bytes_read => out[i].kind # "Event"

\* C6: every emitted event carries exactly the known kinds whose bit is set in
\* the record's mask, each once, and a well-formed read of one record has
\* yielded exactly one event when the framing loop ends.
C6_KindsAreTheKnownBitsOfMask ==
    /\ \A i \in 1..Len(out) :
          /\ SeqRange(out[i].kinds) = { k \in KnownKinds : LowBitSet(out[i].raw.mask, KindBit(k)) }
          /\ Len(out[i].kinds) = Cardinality(SeqRange(out[i].kinds))
    /\ (pc = "frame" /\ offset >= bytes_read) => Len(out) = 1

\* C6 witness: an event with more than one kind, after its framing pass ended.
C6_Witness ==
    /\ pc = "frame"
    /\ offset >= bytes_read
    /\ \E i \in 1..Len(out) : Len(out[i].kinds) >= 2

\* C7: the kinds of every emitted event are non-empty and all registered in
\* actual_mask.
C7_KindsNonEmptyAndRegistered ==
    \A i \in 1..Len(out) :
        /\ out[i].kinds # <<>>
        /\ \A k \in SeqRange(out[i].kinds) : BitAnd(KindBit(k), actual_mask) # 0

\* C8: once main has returned after the session was created, the session
\* descriptor has been closed exactly once and is not open.
C8_SessionClosedExactlyOnce ==
    (pc = "done" /\ sessions = 1) =>
        /\ session_closes = 1
        /\ fanotify_fd \notin open_fds

\* C9: when the first mark (its mask contains ATTRIB) was rejected, a second
\* mark is made on the same target with the mask {OPEN, MODIFY, CLOSE_WRITE};
\* if it succeeded main goes on towards the read loop without an error, and if
\* it failed main has returned Err and read was never called.
C9_FallbackToReducedMask ==
    (Len(marks) >= 1 /\ ~marks[1].ok /\ pc # "mark_fallback") =>
        /\ BitAnd(marks[1].mask, FAN_ATTRIB) # 0
        /\ Len(marks) >= 2
        /\ marks[2].path = marks[1].path
        /\ marks[2].flags = marks[1].flags
        /\ marks[2].fd = marks[1].fd
        /\ marks[2].mask = FAN_OPEN + FAN_MODIFY + FAN_CLOSE_WRITE
        /\ marks[2].ok => result # "Err"
        /\ ~marks[2].ok => (pc = "done" /\ result = "Err" /\ ~read_called)

\* C9 witness: the fallback mark succeeded after the first was rejected and the
\* loop is decoding records.
C9_Witness ==
    /\ Len(marks) >= 2
    /\ ~marks[1].ok
    /\ marks[2].ok
    /\ pc = "frame"

\* C10: at most one session is created; every mark and every read is made on
\* a session that was created; when fanotify_init failed, main has returned
\* Err with no mark made and no read called.
C10_SessionBeforeMarksAndReads ==
    /\ sessions <= 1
    /\ (marks # <<>> \/ read_called) =>
          /\ sessions = 1
          /\ fanotify_fd >= 0
          /\ \A i \in 1..Len(marks) : marks[i].fd = fanotify_fd
    /\ (pc # "init" /\ sessions = 0) =>
          /\ pc = "done"
          /\ result = "Err"
          /\ marks = <<>>
          /\ ~read_called

\* C10 witness: a read was made, after marks, on the one session.
C10_Witness ==
    read_called /\ marks # <<>> /\ sessions = 1 /\ event_count > 0

\* C11 (as claimed): a record whose descriptor is negative or cannot be
\* resolved yields the subject fd=<value>.
C11_InvalidOrUnresolvedGivesFd ==
    \A i \in 1..Len(out) :
        (out[i].raw.fd < 0 \/ ~out[i].resolved) =>
            out[i].subject = [tag |-> "fd", fd |-> out[i].raw.fd]

\* C11 (amended): a record whose descriptor is not negative and cannot be
\* resolved yields the subject fd=<value>, a record whose descriptor is
\* negative yields path=unknown; either way the record is emitted as an event
\* and main has not returned.
C11_UnresolvedGivesFdNegativeGivesUnknown ==
    /\ \A i \in 1..Len(out) :
          /\ (out[i].raw.fd >= 0 /\ ~out[i].resolved) =>
                out[i].subject = [tag |-> "fd", fd |-> out[i].raw.fd]
          /\ out[i].raw.fd < 0 => out[i].subject.tag = "unknown"
          /\ out[i].kind = "Event"
    /\ out # <<>> => (pc \in {"frame", "close_fd"} /\ result = "none")

\* C11 witness: an unresolved descriptor and a negative descriptor in one pass,
\* each followed by the handling of the rest of the buffer.
C11_Witness ==
    /\ pc = "frame"
    /\ \E i \in 1..Len(out) : out[i].raw.fd >= 0 /\ ~out[i].resolved
    /\ \E i \in 1..Len(out) : out[i].raw.fd < 0
    /\ Len(out) >= 2

(* ------------------------------------- the session closed from outside *)
\* The session descriptor is closed by someone else while main is blocked in
\* read (the way of cancelling the loop the design names).
SessionClosedExternally ==
    /\ pc = "read"
    /\ fanotify_fd \in open_fds
    /\ open_fds' = open_fds \ {fanotify_fd}
    /\ UNCHANGED <<pc, result, fanotify_fd, sessions, session_closes, marks>>
    /\ UNCHANGED setup_vars

NextShutdown ==
    \/ Next
    \/ SessionClosedExternally

SpecShutdown == Init /\ [][NextShutdown]_vars

\* C12: once the session descriptor was closed under the loop, the failed read
\* does not take the exit of a fatal read error, and main does not close the
\* session descriptor again.
C12_ShutdownIsNotFatalAndNotReclosed ==
    [][ (pc \in {"read", "check_read", "cleanup"} /\ fanotify_fd \notin open_fds) =>
            /\ (pc = "check_read" /\ bytes_read = SysFail) => pc' # "cleanup"
            /\ session_closes' = session_closes ]_vars

\* record k of the read just returned carries the bit of kind kd, which is
\* registered
NotificationPending(k, kd) ==
    /\ pc = "check_read"
    /\ Len(delivered) >= k
    /\ BitAnd(delivered[k].mask, KindBit(kd)) # 0
    /\ BitAnd(actual_mask, KindBit(kd)) # 0

\* an event for record k of the read has been emitted with kind kd
NotificationEmitted(k, kd) ==
    /\ Len(delivered) >= k
    /\ \E j \in 1..Len(out) :
          /\ out[j].off = delivered[k].off
          /\ kd \in SeqRange(out[j].kinds)

\* C13: every record the kernel delivers for a registered kind is eventually
\* emitted as an event whose kinds contain that kind, wherever it stands in
\* the read buffer.
C13_NotificationEventuallyEmitted ==
    \A k \in 1..MaxRecs : \A kd \in KnownKinds :
        NotificationPending(k, kd) ~> NotificationEmitted(k, kd)

\* C13 witness: the last record of a read of several records, with a mask of
\* two registered kinds, has been emitted with both.
C13_Witness ==
    /\ Len(delivered) >= 2
    /\ BitAnd(actual_mask, FAN_CLOSE_WRITE) # 0
    /\ NotificationEmitted(Len(delivered), "CLOSE_WRITE")
    /\ NotificationEmitted(Len(delivered), "OPEN")

\* the positions of main inside the read loop
LoopPcs == {"read", "check_read", "frame", "close_fd"}

\* C14: the read loop is left only by a read that failed with an errno other
\* than EINTR and EAGAIN; every other step taken inside the loop (a read of 0
\* bytes, an incomplete trailing record, an event with no known kind, a failed
\* path resolution) stays in the loop, and main has not returned.
C14_LoopLeftOnlyOnFatalRead ==
    [][ (pc \in LoopPcs) =>
            /\ result' = "none"
            /\ pc' \notin LoopPcs =>
                  /\ pc = "check_read"
                  /\ bytes_read = SysFail
                  /\ errno \notin {EINTR, EAGAIN}
                  /\ pc' = "cleanup" ]_vars

\* C14 witness: after an earlier framing pass the loop is again decoding, and
\* has emitted an event with no known kind whose path was not resolved.
C14_Witness ==
    /\ pc = "frame"
    /\ result = "none"
    /\ event_count > Len(out)
    /\ \E i \in 1..Len(out) : out[i].kinds = <<>> /\ ~out[i].resolved

\* C15 (as claimed): a record whose version field is not 3 is emitted as a
\* decode fault, not as a normal event.
C15_WrongVersionIsDecodeFault ==
    \A i \in 1..Len(out) :
        (out[i].off + HeaderSize <= bytes_read /\ out[i].raw.vers # 3) =>
            out[i].kind = "DecodeFault"

\* the bytes of the record header at byte offset off of the buffer
RecordBytesAt(off) == [k \in 1..HeaderSize |-> ByteAt(buffer, off + k)]

\* the event a record's bytes and the outcome of the resolution determine
EventOfBytes(bytes, resolved) ==
    LET mask == SubSeq(bytes, 9, 16)
        fd   == I32At(bytes, 16)
    IN  [kinds   |-> (IF LowBitSet(mask, FAN_ATTRIB) THEN <<"ATTRIB-METADATA">> ELSE <<>>)
                     \o (IF LowBitSet(mask, FAN_OPEN) THEN <<"OPEN">> ELSE <<>>)
                     \o (IF LowBitSet(mask, FAN_MODIFY) THEN <<"MODIFY">> ELSE <<>>)
                     \o (IF LowBitSet(mask, FAN_CLOSE_WRITE) THEN <<"CLOSE_WRITE">> ELSE <<>>),
         pid     |-> I32At(bytes, 20),
         subject |-> [tag |-> IF fd < 0 THEN "unknown"
                              ELSE IF resolved THEN "path" ELSE "fd",
                      fd  |-> fd]]

EmittedEvent(i) ==
    [kinds |-> out[i].kinds, pid |-> out[i].pid, subject |-> out[i].subject]

\* C16: the kinds, pid and subject of every emitted event are a function of the
\* record's bytes and of the outcome of the resolution alone (whatever the
\* event counter, the registered mask and the records before it), so two
\* decodings of the same bytes with the same outcome give the same event.
C16_DecodingIsAFunctionOfTheRecord ==
    (pc \in {"frame", "close_fd"}) =>
        /\ \A i \in 1..Len(out) :
              EmittedEvent(i) = EventOfBytes(RecordBytesAt(out[i].off), out[i].resolved)
        /\ \A i, j \in 1..Len(out) :
              (/\ RecordBytesAt(out[i].off) = RecordBytesAt(out[j].off)
               /\ out[i].resolved = out[j].resolved)
                  => EmittedEvent(i) = EmittedEvent(j)

\* C16 witness: the same bytes were decoded twice in one pass, with the same
\* outcome of the resolution.
C16_Witness ==
    /\ pc = "frame"
    /\ \E i, j \in 1..Len(out) :
          /\ i < j
          /\ RecordBytesAt(out[i].off) = RecordBytesAt(out[j].off)
          /\ out[i].resolved = out[j].resolved

\* C17: whenever a header has been overlaid at an offset, the whole header
\* lies within the bytes the latest read returned, and these lie within the
\* buffer.
C17_HeaderReadWithinBytesRead ==
    (pc \in {"frame", "close_fd"}) =>
        /\ bytes_read <= BUF_SIZE
        /\ bytes_read = Len(buffer)
        /\ pc = "close_fd" => offset + HeaderSize <= bytes_read
        /\ \A i \in 1..Len(out) : out[i].off + HeaderSize <= bytes_read

\* C17 witness: a header was overlaid at an offset that is not a record
\* boundary (a malformed event_len led there).
C17_Witness ==
    /\ pc = "close_fd"
    /\ offset % HeaderSize # 0
    /\ offset + HeaderSize <= bytes_read

\* C18: in a read of well-formed records the events emitted are the records
\* delivered, in order and each at its own offset; the offset after a record
\* is the offset of the next, and bytes_read after the last; when the framing
\* loop ends there are as many events as records; the event counter grows by
\* one with each event and by nothing else.
C18_OneEventPerRecordInOrder ==
    /\ [] ( (pc \in {"frame", "close_fd"}) =>
              /\ Len(out) <= Len(delivered)
              /\ \A i \in 1..Len(out) :
                    /\ out[i].off = delivered[i].off
                    /\ out[i].raw.event_len = delivered[i].size
              /\ pc = "frame" =>
                    offset = (IF Len(out) < Len(delivered)
                              THEN delivered[Len(out) + 1].off ELSE bytes_read)
              /\ (pc = "frame" /\ ~(offset < bytes_read)) => Len(out) = Len(delivered) )
    /\ [][ IF pc' = "read"
           THEN event_count' = event_count
           ELSE event_count' - Len(out') = event_count - Len(out) ]_vars

\* C18 witness: the framing loop has ended on a read of several records, one
\* of them longer than its header.
C18_Witness ==
    /\ pc = "frame"
    /\ offset = bytes_read
    /\ Len(out) >= 2
    /\ Len(out) = Len(delivered)
    /\ \E i \in 1..Len(delivered) : delivered[i].size > HeaderSize

\* C19 (as claimed): the framing loop terminates, that is, each record taken
\* moves the offset forward: back at the head of the loop every record
\* decoded in this pass lies before the offset.  (The decoding depends on the
\* buffer and the offset only, so a step that does not move the offset is
\* repeated for ever.)
C19_EveryRecordMovesTheOffset ==
    (pc = "frame") => \A i \in 1..Len(out) : out[i].off < offset

\* C20: main is in or past the read loop only after a mark on the test file
\* succeeded; actual_mask then has OPEN and CLOSE_WRITE, has ATTRIB exactly
\* when a mark whose mask has ATTRIB succeeded, and has MODIFY exactly when
\* the mark with mask_fallback succeeded; the directory mark is made only
\* after the fallback mark succeeded.
C20_ActualMaskIsWhatWasMarked ==
    /\ (pc \in LoopPcs \/ pc = "cleanup" \/ read_called) =>
          /\ \E i \in 1..Len(marks) : marks[i].ok /\ marks[i].path = TestFile
          /\ BitAnd(actual_mask, FAN_OPEN) # 0
          /\ BitAnd(actual_mask, FAN_CLOSE_WRITE) # 0
          /\ BitAnd(actual_mask, FAN_ATTRIB) # 0 <=>
                \E i \in 1..Len(marks) : marks[i].ok /\ BitAnd(marks[i].mask, FAN_ATTRIB) # 0
          /\ BitAnd(actual_mask, FAN_MODIFY) # 0 <=>
                \E i \in 1..Len(marks) :
                    marks[i].ok /\ marks[i].mask = FAN_OPEN + FAN_MODIFY + FAN_CLOSE_WRITE
          /\ actual_mask < 16
    /\ \A i \in 1..Len(marks) :
          marks[i].path = TmpDir =>
              \E j \in 1..(i - 1) :
                  marks[j].ok /\ marks[j].mask = FAN_OPEN + FAN_MODIFY + FAN_CLOSE_WRITE

\* C20 witness: the loop runs after the fallback mark succeeded and the
\* directory mark failed.
C20_Witness ==
    /\ read_called
    /\ pc = "frame"
    /\ Len(marks) = 3
    /\ ~marks[3].ok

====
